---- MODULE Spec2Model ----
(***************************************************************************)
(* Session store (AuthProvider), auth actions, route guard and login view  *)
(* of the fitness tracker front end, with the external auth subsystem as   *)
(* an environment that answers requests and pushes session events; and the *)
(* workout service's data access adapters with the dashboard and progress  *)
(* pages, with the external storage client as an environment; and the      *)
(* initialisation of the client module from the build's configuration.     *)
(***************************************************************************)
EXTENDS Integers, Sequences, FiniteSets, Bags, TLC

\* ------------------------------------------------------------------ bounds
\* auth events the external subsystem has emitted and the handler has not yet run for
MaxQueue == 1
\* auth actions (login / signup / logout) whose promise has not settled yet
MaxInflight == 2
\* rows of the progress_logs collection up to which the log form is submitted
MaxRows == 3
\* changes of the signed-in identity while one protected page stays mounted
MaxSwitches == 1

\* ------------------------------------------------------------------ values
Null == "null"

\* sessions the external auth subsystem can issue, for two different users
Sessions == {"s1", "s2"}
MaybeSession == Sessions \cup {Null}

\* newSession.user of a session object
SessionUser(s) ==
  CASE s = "s1" -> "uA"
    [] s = "s2" -> "uB"
    [] OTHER -> Null

\* sessions a credential exchange can return (they carry a user)
SignInSessions == {s \in Sessions : SessionUser(s) # Null}

Routes == {"/", "/progress", "/auth", "/missing"}
ProtectedRoutes == {"/", "/progress"}

\* values a credential field can hold: text typed into the form, an absent
\* value, or a value that is not a string
NotAString == "<object>"
FormTexts == {"", " ", "a@b"}
CredValues == FormTexts \cup {Null, NotAString}

\* v.trim() === ''
TrimIsEmpty(v) == v \in {"", " "}

ActionKinds == {"login", "signup", "logout"}

VARIABLES
  session,      \* AuthProvider state: session
  user,         \* AuthProvider state: user
  loading,      \* AuthProvider state: loading
  error,        \* AuthProvider state: error
  isMounted,    \* the mount effect's isMounted flag
  subscribed,   \* the onAuthStateChange subscription is registered
  initPhase,    \* getInitialSession: "pending" (request out), "served" (response on its way), "done"
  initResult,   \* what getSession() resolves or rejects with
  extSession,   \* the session the external auth subsystem currently holds
  evq,          \* events emitted by the external subsystem, not yet handled
  lastEvent,    \* session carried by the event the handler ran for last ("none" before the first)
  inflight,     \* bag of auth actions awaiting their service call
  route,        \* location.pathname
  from,         \* location.state.from.pathname (Null when no state was carried)
  view,         \* what the router's matched element renders
  localError,   \* AuthPage state: localError
  returned      \* error field of the result the auth action settled in this step
                \* returned to its caller ("none" when the step settled no action)

VARIABLES
  supabase,     \* supabaseClient.js: the outcome of the module's initialisation
  plans,        \* external storage: rows of the workout_plans collection
  db,           \* external storage: rows of the progress_logs collection
  page,         \* the protected page component that is mounted
  calls,        \* the data adapter invocations that have not ended yet
  sent,         \* requests the adapter invoked last handed to the external storage client
  reply,        \* how the storage client ended the request of the invocation that ended last
  ret,          \* the adapter invocation that ended last, with what it returned
  dashboard,    \* DashboardPage state: planData, isLoading, error
  progress      \* ProgressPage state: history*, log*, localValidationError

dataVars == <<supabase, plans, db, page, calls, sent, reply, ret, dashboard, progress>>

authVars == <<session, user, loading, error, isMounted, subscribed, initPhase, initResult,
              extSession, evq, lastEvent, inflight, route, from, view, localError,
              returned>>

vars == <<authVars, dataVars>>

storeVars == <<session, user, loading, error>>
routerVars == <<route, from, localError>>
extVars == <<extSession, evq>>

\* ------------------------------------------------------------- route guard
RequireAuth_NoUserCheck(u, l, children) ==
  IF l THEN "placeholder" ELSE children

RequireAuth_UserFirst(u, l, children) ==
  IF u = Null THEN "navigate" ELSE IF l THEN "placeholder" ELSE children

\* RequireAuth: placeholder while loading, <Navigate> without a user, else the children
RequireAuth(u, l, children) ==
  IF l THEN "placeholder"
  ELSE IF u = Null THEN "navigate"
  ELSE children

\* AppRouter: the element of the route that matches the path
AppRouter(r, u, l) ==
  CASE r = "/auth" -> "auth"
    [] r = "/" -> RequireAuth(u, l, "dashboard")
    [] r = "/progress" -> RequireAuth(u, l, "progress")
    [] OTHER -> "notfound"

\* useRequireAuth: the effect's decision ("none" or a navigate to /auth)
useRequireAuth(u, l) ==
  IF l THEN "none"
  ELSE IF u = Null THEN "navigate"
  ELSE "none"

RedirectTo_StaysOnAuth(f) == "/auth"

RedirectTo_AlwaysDashboard(f) == "/"

\* AuthPage redirection effect: where an authenticated visitor is sent
RedirectTo(f) == IF f # Null /\ f # "/auth" THEN f ELSE "/"

\* <Navigate to="/auth" state={{ from: location }} replace />: the carried pathname
NavigateFrom(r) == r

\* the step settles no auth action: nothing is returned to a caller
NoReturn == returned' = "none"

\* every state change re-renders the tree under the provider
Rerender == view' = IF isMounted' THEN AppRouter(route', user', loading') ELSE "unmounted"

\* a queued navigation effect: RequireAuth's <Navigate>, or AuthPage's effect seeing a user
NavPending ==
  /\ isMounted
  /\ \/ view = "navigate"
     \/ route = "/auth" /\ user # Null

validateCredentials_NoTrim(email, password) ==
  /\ email # Null /\ email # NotAString /\ email # ""
  /\ password # Null /\ password # NotAString /\ password # ""

\* ------------------------------------------------------------ auth service
\* validateCredentials(email, password)
validateCredentials(email, password) ==
  /\ email # Null /\ email # NotAString /\ ~TrimIsEmpty(email)
  /\ password # Null /\ password # NotAString /\ ~TrimIsEmpty(password)

\* how a service call can end: rejected by validateCredentials, answered with a
\* session change, answered with a reported error, or the client call throws
Outcomes(a) ==
  CASE a.res = "invalid" -> {"invalid"}
    [] a.res = "ok" -> {"ok"}
    [] OTHER -> {"err", "throw"}

\* signUp / signInWithPassword / signOut: the error field of the result, per outcome
ServiceError(outcome) ==
  CASE outcome = "invalid" -> "validationError"
    [] outcome = "err" -> "authError"
    [] outcome = "throw" -> "runtimeError"
    [] OTHER -> Null

ActionSession_ClearsOnLogout(a, outcome, current) ==
  IF outcome = "ok" /\ a.kind = "logout" THEN Null ELSE current

\* login / signup / logout: the session the action leaves in the store
\* (the result's session is never assigned)
ActionSession(a, outcome, current) == current

InitialLoading_False == FALSE

\* useState(true): the provider starts in the loading state
InitialLoading == TRUE

\* the error field of the result login / signup / logout return to their caller:
\* `return result` hands on the service's result
ActionReturn(a, outcome) == ServiceError(outcome)

\* ============================================================ data access
\* ------------------------------------------------------ JavaScript values
\* a value with its typeof, its number and its text
Num(k) == [t |-> "number", n |-> k, s |-> ""]
Str(x) == [t |-> "string", n |-> 0, s |-> x]
NaN == [t |-> "number", n |-> 0, s |-> "NaN"]
Undefined == [t |-> "undefined", n |-> 0, s |-> ""]
NullV == [t |-> "object", n |-> 0, s |-> "null"]
Obj == [t |-> "object", n |-> 0, s |-> "{}"]

\* !!v
Truthy(v) ==
  CASE v.t = "string" -> v.s # ""
    [] v.t = "number" -> v.s # "NaN" /\ v.n # 0
    [] v.t = "object" -> v.s # "null"
    [] OTHER -> FALSE

\* String.prototype.trim on the texts in use
Trim(x) ==
  CASE x \in {"", " "} -> ""
    [] x = " Legs " -> "Legs"
    [] OTHER -> x

\* v && typeof v === 'string' && v.trim() !== ''
NonEmptyText(v) == Truthy(v) /\ v.t = "string" /\ Trim(v.s) # ""

\* typeof v === 'number' && v >= 0 (every comparison with NaN is false)
NonNegativeNumber(v) == v.t = "number" /\ v.s # "NaN" /\ v.n >= 0

\* user?.id of the auth context's user
UserId(u) == IF u = Null THEN Undefined ELSE Str(u)

\* user identities an adapter can be handed
UserIdInputs == {Str("uA"), Str("uB"), Str(""), Str(" "), NullV, Undefined, Num(7)}

\* ---------------------------------------------------------- log entries
LogFields == {"workout_name", "exercise_name", "sets_completed", "reps_achieved",
              "workout_date", "weight_used"}

\* a logData argument: the value itself and, for an object, its properties
\* (a property the object does not carry reads as undefined)
BaseEntry ==
  [value |-> Obj,
   workout_name |-> Str("Legs"),
   exercise_name |-> Str("Squat"),
   sets_completed |-> Num(3),
   reps_achieved |-> Str("8-12"),
   workout_date |-> Str("2024-05-01"),
   weight_used |-> Num(60),
   user_id |-> Undefined]

\* a logData argument that is no object
NotAnEntry(v) ==
  [value |-> v, workout_name |-> Undefined, exercise_name |-> Undefined,
   sets_completed |-> Undefined, reps_achieved |-> Undefined,
   workout_date |-> Undefined, weight_used |-> Undefined, user_id |-> Undefined]

NoEntry == NotAnEntry(Undefined)

FieldValues == {Str(""), Str(" "), Str(" Legs "), Str("2024-05-02"), Num(-5), Num(0), NaN,
                NullV, Undefined}

\* entries an adapter can be handed: a well-formed one, every one that differs
\* from it in one property, ones that carry a user_id of their own, no object
Entries ==
  {BaseEntry}
    \cup {[BaseEntry EXCEPT ![f] = v] : f \in LogFields, v \in FieldValues}
    \cup {[BaseEntry EXCEPT !.user_id = Str(u)] : u \in {"uA", "uB"}}
    \cup {NotAnEntry(v) : v \in {NullV, Undefined, Str("Legs")}}

\* ------------------------------------------------------------ validation
validateUserId_NoTrim(userId) == Truthy(userId) /\ userId.t = "string"

\* validateUserId(userId)
validateUserId(userId) ==
  Truthy(userId) /\ userId.t = "string" /\ Trim(userId.s) # ""

validateLogData_NoSetsCheck(logData) ==
  /\ Truthy(logData.value) /\ logData.value.t = "object"
  /\ NonEmptyText(logData.workout_name)
  /\ NonEmptyText(logData.exercise_name)
  /\ NonEmptyText(logData.reps_achieved)
  /\ NonEmptyText(logData.workout_date)
  /\ logData.weight_used.t \in {"undefined", "number"} \/ logData.weight_used = NullV

\* validateLogData(logData)
validateLogData(logData) ==
  /\ Truthy(logData.value) /\ logData.value.t = "object"
  /\ NonEmptyText(logData.workout_name)
  /\ NonEmptyText(logData.exercise_name)
  /\ NonNegativeNumber(logData.sets_completed)
  /\ NonEmptyText(logData.reps_achieved)
  /\ NonEmptyText(logData.workout_date)
  /\ \/ logData.weight_used = Undefined
     \/ logData.weight_used = NullV
     \/ logData.weight_used.t = "number"

\* ---------------------------------------------------- requests and rows
NoData == [kind |-> "null", rows |-> <<>>]
Rows(q) == [kind |-> "rows", rows |-> q]
OneRow(r) == [kind |-> "row", rows |-> <<r>>]

InsertRecord_TrimsNames(userId, logData) ==
  [user_id |-> IF logData.user_id # Undefined THEN logData.user_id ELSE userId,
   workout_name |-> [logData.workout_name EXCEPT !.s = Trim(@)],
   exercise_name |-> [logData.exercise_name EXCEPT !.s = Trim(@)],
   sets_completed |-> logData.sets_completed,
   reps_achieved |-> logData.reps_achieved,
   workout_date |-> logData.workout_date,
   weight_used |-> logData.weight_used]

\* { user_id: userId, ...logData }: properties spread later win
InsertRecord(userId, logData) ==
  [user_id |-> IF logData.user_id # Undefined THEN logData.user_id ELSE userId,
   workout_name |-> logData.workout_name,
   exercise_name |-> logData.exercise_name,
   sets_completed |-> logData.sets_completed,
   reps_achieved |-> logData.reps_achieved,
   workout_date |-> logData.workout_date,
   weight_used |-> logData.weight_used]

\* a request to the storage client: the query builder chain as data
Request(table, verb, eq, order, single, records) ==
  [table |-> table, verb |-> verb, eq |-> eq, order |-> order, single |-> single,
   records |-> records]

NoRequest == Request("none", "none", Undefined, <<>>, FALSE, <<>>)

Descending(column) == [column |-> column, ascending |-> FALSE]

\* .from('workout_plans').select(...).eq('user_id', userId).maybeSingle()
PlanQuery(userId) == Request("workout_plans", "select", userId, <<>>, TRUE, <<>>)

\* .from('progress_logs').insert([{ user_id: userId, ...logData }]).select()
InsertRequest(userId, logData) ==
  Request("progress_logs", "insert", Undefined, <<>>, FALSE,
          <<InsertRecord(userId, logData)>>)

HistoryQuery_DateOnly(userId) ==
  Request("progress_logs", "select", userId, <<Descending("workout_date")>>, FALSE, <<>>)

\* .from('progress_logs').select('*').eq('user_id', userId)
\*   .order('workout_date', { ascending: false }).order('created_at', { ascending: false })
HistoryQuery(userId) ==
  Request("progress_logs", "select", userId,
          <<Descending("workout_date"), Descending("created_at")>>, FALSE, <<>>)

Adapters == {"fetchWorkoutPlan", "logWorkoutProgress", "fetchProgressHistory"}

\* an adapter up to its await: the validation error it returns at once (Null when
\* the input passes) and the request it issues otherwise
AdapterCall(op, userId, logData) ==
  IF ~validateUserId(userId)
  THEN [rejected |-> "userIdError", req |-> NoRequest]
  ELSE IF op = "logWorkoutProgress" /\ ~validateLogData(logData)
  THEN [rejected |-> "logDataError", req |-> NoRequest]
  ELSE [rejected |-> Null,
        req |-> CASE op = "fetchWorkoutPlan" -> PlanQuery(userId)
                  [] op = "logWorkoutProgress" -> InsertRequest(userId, logData)
                  [] OTHER -> HistoryQuery(userId)]

\* what the storage client's call amounts to: it resolves with {data, error}
\* ("ok": error null; "error": error set, data null) or it throws
Response(kind, data) == [kind |-> kind, data |-> data]
NoResponse == Response("none", NoData)
Reported == Response("error", NoData)
Thrown == Response("throw", NoData)

\* data ?? []
OrEmpty(data) == IF data.kind = "null" THEN Rows(<<>>) ELSE data

fetchProgressHistoryResult_NoDefault(resp) ==
  IF resp.kind = "throw"
  THEN [data |-> NoData, error |-> "runtimeError"]
  ELSE [data |-> resp.data, error |-> IF resp.kind = "error" THEN "storageError" ELSE Null]

\* fetchProgressHistory after the await: return { data: data ?? [], error }, or the
\* catch block's { data: null, error: new Error(...) }
fetchProgressHistoryResult(resp) ==
  IF resp.kind = "throw"
  THEN [data |-> NoData, error |-> "runtimeError"]
  ELSE [data |-> OrEmpty(resp.data),
        error |-> IF resp.kind = "error" THEN "storageError" ELSE Null]

PassThroughResult_SwallowsThrow(resp) ==
  [data |-> resp.data, error |-> IF resp.kind = "error" THEN "storageError" ELSE Null]

\* fetchWorkoutPlan and logWorkoutProgress after the await: return { data, error },
\* or the catch block's { data: null, error: new Error(...) }
PassThroughResult(resp) ==
  IF resp.kind = "throw"
  THEN [data |-> NoData, error |-> "runtimeError"]
  ELSE [data |-> resp.data, error |-> IF resp.kind = "error" THEN "storageError" ELSE Null]

\* what an adapter returns once its call has ended
AdapterResult(op, rejected, resp) ==
  IF rejected # Null THEN [data |-> NoData, error |-> rejected]
  ELSE IF op = "fetchProgressHistory" THEN fetchProgressHistoryResult(resp)
  ELSE PassThroughResult(resp)

\* ------------------------------------------------- the external storage
Users == {"uA", "uB"}

\* a row of workout_plans
PlanRow(id, u) == [id |-> id, user_id |-> Str(u)]
PlanRows == {PlanRow(1, "uA"), PlanRow(2, "uA"), PlanRow(3, "uB")}

\* a row of progress_logs: the inserted record with the columns the database fills
Stored(rec, id, c) ==
  [id |-> id, created_at |-> c,
   user_id |-> rec.user_id,
   workout_name |-> rec.workout_name,
   exercise_name |-> rec.exercise_name,
   sets_completed |-> rec.sets_completed,
   reps_achieved |-> rec.reps_achieved,
   workout_date |-> rec.workout_date,
   weight_used |-> IF rec.weight_used = Undefined THEN NullV ELSE rec.weight_used]

SeedRow(id, u, date, c) ==
  Stored(InsertRecord(Str(u), [BaseEntry EXCEPT !.workout_date = Str(date)]), id, c)

\* rows the collection can hold before the first insert: two of one user on the
\* same day, one of that user on a later day but created first, one of another user
SeedRows == {SeedRow(1, "uA", "2024-05-02", 1), SeedRow(2, "uA", "2024-05-01", 2),
             SeedRow(3, "uA", "2024-05-01", 3), SeedRow(4, "uB", "2024-05-02", 4)}

\* the order of the texts a date column can hold
DateRank(x) ==
  CASE x = "2024-05-01" -> 1
    [] x = "2024-05-02" -> 2
    [] OTHER -> 0

\* the value a row is ordered by
SortKey(r, column) ==
  IF column = "workout_date" THEN DateRank(r.workout_date.s) ELSE r.created_at

\* row a may come before row b under the .order() calls of a request
RECURSIVE MayPrecede(_, _, _)
MayPrecede(a, b, order) ==
  IF order = <<>> THEN TRUE
  ELSE LET ka == SortKey(a, Head(order).column)
           kb == SortKey(b, Head(order).column)
       IN IF ka = kb THEN MayPrecede(a, b, Tail(order))
          ELSE IF Head(order).ascending THEN ka < kb ELSE ka > kb

\* .eq('user_id', v)
Matching(rows, req) == {r \in rows : r.user_id = req.eq}

\* the sequences a select may resolve with: the matching rows, each once, in an
\* order the .order() calls allow
QueryResults(rows, req) ==
  LET m == Matching(rows, req)
      k == Cardinality(m)
  IN {q \in [1..k -> m] :
        /\ \A i, j \in 1..k : i # j => q[i] # q[j]
        /\ \A i, j \in 1..k : i < j => MayPrecede(q[i], q[j], req.order)}

\* the id and creation time the database gives the next row
NextId(rows) == IF rows = {} THEN 1
                ELSE 1 + (CHOOSE k \in {r.id : r \in rows} : \A r \in rows : r.id <= k)
Now(rows) == IF rows = {} THEN 1
             ELSE 1 + (CHOOSE c \in {r.created_at : r \in rows} :
                         \A r \in rows : r.created_at <= c)

\* the ways the storage client can end a request, given the collections
ClientResponses(req, planRows, logRows) ==
  {Reported, Thrown} \cup
  CASE req.table = "workout_plans" ->
         LET m == Matching(planRows, req)
         IN IF m = {} THEN {Response("ok", NoData)}
            ELSE IF Cardinality(m) = 1 THEN {Response("ok", OneRow(r)) : r \in m}
            ELSE {}       \* maybeSingle(): more than one row is a reported error
    [] req.verb = "insert" ->
         {Response("ok", Rows(<<Stored(req.records[1], NextId(logRows), Now(logRows))>>))}
    [] OTHER ->
         {Response("ok", Rows(q)) : q \in QueryResults(logRows, req)}
           \cup (IF Matching(logRows, req) = {} THEN {Response("ok", NoData)} ELSE {})

\* progress_logs after the request has been answered
LogsAfter(req, resp, logRows) ==
  IF req.verb = "insert" /\ resp.kind = "ok"
  THEN logRows \cup {resp.data.rows[i] : i \in 1..Len(resp.data.rows)}
  ELSE logRows

\* ------------------------------------------------------------- the pages
\* DashboardPage: useState(null), useState(true), useState(null)
DashboardInitial == [planData |-> NoData, isLoading |-> TRUE, error |-> Null]

\* ProgressPage: the useState initial values
ProgressInitial ==
  [historyData |-> NoData, historyLoading |-> TRUE, historyError |-> Null,
   logLoading |-> FALSE, logError |-> Null, localValidationError |-> Null]

\* DashboardPage's return: renderLoading / renderError / renderPlanContent
renderDashboard(d) ==
  IF d.isLoading THEN "loading"
  ELSE IF d.error # Null THEN "error"
  ELSE IF d.planData.kind = "null" THEN "noPlan"
  ELSE "plan"

\* ProgressPage's history section: the state shown and the rows listed, in order
\* (historyData.map keeps the order of the array)
renderHistory(p) ==
  IF p.historyLoading THEN [shows |-> "loading", items |-> <<>>]
  ELSE IF p.historyError # Null THEN [shows |-> "error", items |-> <<>>]
  ELSE IF p.historyData.kind = "null" \/ Len(p.historyData.rows) = 0
  THEN [shows |-> "empty", items |-> <<>>]
  ELSE [shows |-> "list", items |-> p.historyData.rows]

\* the log form's fields, as typed
BaseForm ==
  [workout_name |-> "Legs", exercise_name |-> "Squat", sets_completed |-> "3",
   reps_achieved |-> "8-12", workout_date |-> "2024-05-01", weight_used |-> "60"]

Forms ==
  {BaseForm}
    \cup {[BaseForm EXCEPT !.workout_name = x] : x \in {"", " Legs "}}
    \cup {[BaseForm EXCEPT !.exercise_name = x] : x \in {" "}}
    \cup {[BaseForm EXCEPT !.sets_completed = x] : x \in {"", "x", "-5"}}
    \cup {[BaseForm EXCEPT !.reps_achieved = x] : x \in {" "}}
    \cup {[BaseForm EXCEPT !.workout_date = x] : x \in {""}}
    \cup {[BaseForm EXCEPT !.weight_used = x] : x \in {"x", "-5"}}
    \cup {[BaseForm EXCEPT !.workout_date = "2024-05-02", !.weight_used = ""]}

\* parseInt(x, 10) and parseFloat(x) on the texts in use
ParseNumber(x) ==
  CASE x = "3" -> Num(3)
    [] x = "60" -> Num(60)
    [] x = "-5" -> Num(-5)
    [] OTHER -> NaN
parseInt(x) == ParseNumber(x)
parseFloat(x) == ParseNumber(x)

\* isNaN(v) || v < 0
NaNOrNegative(v) == v.s = "NaN" \/ v.n < 0

\* handleLogSubmit: the message of the client-side validation (Null when the
\* form passes), with the user identity checked last
LocalValidation(form, u) ==
  IF \/ Trim(form.workout_name) = ""
     \/ Trim(form.exercise_name) = ""
     \/ Trim(form.sets_completed) = ""
     \/ Trim(form.reps_achieved) = ""
     \/ Trim(form.workout_date) = ""
  THEN "fieldsRequired"
  ELSE IF NaNOrNegative(parseInt(form.sets_completed)) THEN "setsInvalid"
  ELSE IF Trim(form.weight_used) # "" /\ NaNOrNegative(parseFloat(form.weight_used))
  THEN "weightInvalid"
  ELSE IF ~Truthy(UserId(u)) THEN "userMissing"
  ELSE Null

\* handleLogSubmit: logDataPayload
LogDataPayload(form) ==
  [value |-> Obj,
   workout_name |-> Str(Trim(form.workout_name)),
   exercise_name |-> Str(Trim(form.exercise_name)),
   sets_completed |-> parseInt(form.sets_completed),
   reps_achieved |-> Str(Trim(form.reps_achieved)),
   workout_date |-> Str(form.workout_date),
   weight_used |-> IF Trim(form.weight_used) # "" THEN parseFloat(form.weight_used)
                   ELSE NullV,
   user_id |-> Undefined]

\* the request is with the storage client, which has not answered it yet
Unanswered == Response("pending", NoData)

\* an adapter invocation that has not ended yet: the adapter is at its await
\* until the storage client's answer (resp) has come and the adapter resumes
Invocation(caller, op, userId, logData) ==
  [caller |-> caller, op |-> op, userId |-> userId, logData |-> logData,
   rejected |-> AdapterCall(op, userId, logData).rejected,
   req |-> AdapterCall(op, userId, logData).req,
   resp |-> Unanswered]

\* the requests an invocation hands to the storage client
Issued(c) == IF c.rejected # Null THEN <<>> ELSE <<c.req>>

\* the record of an invocation that has ended, with what it returned
Returned(c, result) ==
  [state |-> "returned", caller |-> c.caller, op |-> c.op, userId |-> c.userId,
   logData |-> c.logData, data |-> result.data, error |-> result.error]

NoReturned ==
  [state |-> "none", caller |-> "none", op |-> "none", userId |-> Undefined,
   logData |-> NoEntry, data |-> NoData, error |-> Null]

\* the protected page the guard renders: its component is mounted until the
\* route is left, its fetch effect is due after mount and after each change of
\* user?.id (effect), which has changed so many times since mount (switches)
Page(name) == [name |-> name, effect |-> TRUE, mounted |-> TRUE, switches |-> 0]
NoPage == [name |-> "none", effect |-> FALSE, mounted |-> FALSE, switches |-> 0]

\* the values Vite can put in import.meta.env.VITE_SUPABASE_URL / _ANON_KEY
UrlValues == {Undefined, NullV, Num(1), Str(""), Str(" "), Str("https://p.supabase.co")}
KeyValues == {Undefined, NullV, Num(1), Str(""), Str(" "), Str("anon-key")}

\* supabaseClient.js has not been evaluated
NotLoaded == [state |-> "unloaded", url |-> Undefined, key |-> Undefined, error |-> Null]

supabaseClient_NoKeyCheck(url, key) ==
  IF ~NonEmptyText(url)
  THEN [state |-> "fatal", url |-> url, key |-> key, error |-> "urlError"]
  ELSE [state |-> "created", url |-> url, key |-> key, error |-> Null]

\* supabaseClient.js evaluated: the two checks throw, or createClient(url, key)
\* is exported
supabaseClient(url, key) ==
  IF ~NonEmptyText(url)
  THEN [state |-> "fatal", url |-> url, key |-> key, error |-> "urlError"]
  ELSE IF ~NonEmptyText(key)
  THEN [state |-> "fatal", url |-> url, key |-> key, error |-> "keyError"]
  ELSE [state |-> "created", url |-> url, key |-> key, error |-> Null]

\* the client of an application that has started
Configured == supabaseClient(Str("https://p.supabase.co"), Str("anon-key"))

\* no page is mounted and no adapter has been called
DataAtRest ==
  /\ supabase = Configured
  /\ plans = {}
  /\ db = {}
  /\ page = NoPage
  /\ calls = {}
  /\ sent = <<>>
  /\ reply = NoResponse
  /\ ret = NoReturned
  /\ dashboard = DashboardInitial
  /\ progress = ProgressInitial

\* ------------------------------------------------------------------- Init
Init ==
  /\ session = Null
  /\ user = Null
  /\ loading = InitialLoading
  /\ error = Null
  /\ isMounted = TRUE
  /\ subscribed = TRUE
  /\ initPhase = "pending"
  /\ initResult = [kind |-> "none", sess |-> Null]
  /\ extSession \in MaybeSession
  /\ evq = <<>>
  /\ lastEvent = "none"
  /\ inflight = EmptyBag
  /\ route \in Routes
  /\ from = Null
  /\ view = AppRouter(route, user, loading)
  /\ localError = Null
  /\ returned = "none"
  /\ DataAtRest

\* -------------------------------------------------------------- the store
Store == [session |-> session, user |-> user, loading |-> loading, error |-> error]

\* the four setState calls of one handler, committed together
SetStore(st) ==
  /\ session' = st.session
  /\ user' = st.user
  /\ loading' = st.loading
  /\ error' = st.error

\* the value of `loading` the subscription handler closes over: the effect runs
\* once (empty dependency array), so it is the first render's useState(true)
HandlerLoading == InitialLoading

\* getInitialSession after the await, component still mounted
InitialSessionState(res, st) ==
  CASE res.kind = "ok" ->
         [st EXCEPT !.session = res.sess, !.user = SessionUser(res.sess), !.loading = FALSE]
    [] res.kind = "error" -> [st EXCEPT !.error = "sessionError", !.loading = FALSE]
    [] OTHER -> [st EXCEPT !.error = "initError", !.loading = FALSE]

onAuthStateChange_KeepsError(newSession, st) ==
  [session |-> newSession,
   user |-> SessionUser(newSession),
   error |-> st.error,
   loading |-> IF HandlerLoading THEN FALSE ELSE st.loading]

\* the onAuthStateChange callback, component still mounted
onAuthStateChange(newSession, st) ==
  [session |-> newSession,
   user |-> SessionUser(newSession),
   error |-> Null,
   loading |-> IF HandlerLoading THEN FALSE ELSE st.loading]

\* login / signup / logout up to the await: setLoading(true); setError(null)
ActionBegin(st) == [st EXCEPT !.loading = TRUE, !.error = Null]

ActionSettle_DropsError(a, outcome, st) ==
  [session |-> ActionSession(a, outcome, st.session),
   user |-> st.user,
   error |-> st.error,
   loading |-> FALSE]

\* login / signup / logout after the await: setError(result.error) if any, then
\* the finally block's setLoading(false)
ActionSettle(a, outcome, st) ==
  [session |-> ActionSession(a, outcome, st.session),
   user |-> st.user,
   error |-> IF ServiceError(outcome) # Null THEN ServiceError(outcome) ELSE st.error,
   loading |-> FALSE]

\* the service call an action starts: rejected locally or sent to the subsystem
ServiceCall(kind, email, password) ==
  IF kind # "logout" /\ ~validateCredentials(email, password)
  THEN [kind |-> kind, res |-> "invalid"]
  ELSE [kind |-> kind, res |-> "pending"]

AddInflight(a) == inflight' = inflight (+) SetToBag({a})
ReplaceInflight(a, b) == inflight' = (inflight (-) SetToBag({a})) (+) SetToBag({b})
RemoveInflight(a) == inflight' = inflight (-) SetToBag({a})

\* ------------------------------------------------- the external subsystem
\* the session the subsystem holds is read by getSession() alone: it is tracked
\* until that one read has been answered
Held(s) == IF initPhase = "pending" THEN s ELSE Null

\* supabase.auth.getSession() is answered from the subsystem's current session
getSessionServe ==
  /\ initPhase = "pending"
  /\ ~NavPending
  /\ \E k \in {"ok", "error", "throw"} :
       initResult' = [kind |-> k, sess |-> IF k = "ok" THEN extSession ELSE Null]
  /\ initPhase' = "served"
  /\ extSession' = Null
  /\ UNCHANGED <<storeVars, isMounted, subscribed, evq, lastEvent, inflight,
                 routerVars, view>>
  /\ NoReturn
  /\ UNCHANGED dataVars

\* the subsystem reports a session to its subscriber (initial session, token
\* refresh, sign-in or sign-out in another tab, expiry)
ExtChange(s) ==
  /\ subscribed
  /\ ~NavPending
  /\ Len(evq) < MaxQueue
  /\ extSession' = Held(s)
  /\ evq' = Append(evq, s)
  /\ UNCHANGED <<storeVars, isMounted, subscribed, initPhase, initResult, lastEvent,
                 inflight, routerVars, view>>
  /\ NoReturn
  /\ UNCHANGED dataVars

\* the session a successful call of this kind leaves at the subsystem
ServedSessions(kind) ==
  CASE kind = "login" -> SignInSessions
    [] kind = "signup" -> SignInSessions \cup {Null}
    [] OTHER -> {Null}

\* the subsystem carries out signInWithPassword / signUp / signOut: the session
\* changes and the subscriber is notified; the response is on its way
ExtServe(a) ==
  /\ BagIn(a, inflight)
  /\ a.res = "pending"
  /\ ~NavPending
  /\ ReplaceInflight(a, [a EXCEPT !.res = "ok"])
  /\ \E s \in ServedSessions(a.kind) :
       IF a.kind = "signup" /\ s = Null
       THEN UNCHANGED extVars       \* confirmation required: no session yet
       ELSE /\ extSession' = Held(s)
            /\ IF subscribed
               THEN Len(evq) < MaxQueue /\ evq' = Append(evq, s)
               ELSE UNCHANGED evq
  /\ UNCHANGED <<storeVars, isMounted, subscribed, initPhase, initResult, lastEvent,
                 routerVars, view>>
  /\ NoReturn
  /\ UNCHANGED dataVars

\* ------------------------------------------------------ store operations
\* getInitialSession resumes after the await
getInitialSession ==
  /\ initPhase = "served"
  /\ ~NavPending
  /\ initPhase' = "done"
  /\ initResult' = [kind |-> "none", sess |-> Null]
  /\ IF isMounted
     THEN SetStore(InitialSessionState(initResult, Store))
     ELSE UNCHANGED storeVars
  /\ UNCHANGED <<isMounted, subscribed, extVars, lastEvent, inflight, routerVars>>
  /\ Rerender
  /\ NoReturn
  /\ UNCHANGED dataVars

\* the subscription callback runs for the oldest undelivered event
DeliverEvent ==
  /\ subscribed
  /\ evq # <<>>
  /\ ~NavPending
  /\ evq' = Tail(evq)
  /\ IF isMounted
     THEN SetStore(onAuthStateChange(Head(evq), Store)) /\ lastEvent' = Head(evq)
     ELSE UNCHANGED <<storeVars, lastEvent>>
  /\ UNCHANGED <<isMounted, subscribed, initPhase, initResult, extSession, inflight,
                 routerVars>>
  /\ Rerender
  /\ NoReturn
  /\ UNCHANGED dataVars

\* login / signup / logout are called: state is set and the service call goes out
StartAction(kind, email, password) ==
  /\ BagCardinality(inflight) < MaxInflight
  /\ SetStore(ActionBegin(Store))
  /\ AddInflight(ServiceCall(kind, email, password))

\* login / signup / logout resume after the await (no isMounted check)
SettleAction(a, outcome) ==
  /\ BagIn(a, inflight)
  /\ ~NavPending
  /\ outcome \in Outcomes(a)
  /\ SetStore(ActionSettle(a, outcome, Store))
  /\ RemoveInflight(a)
  /\ UNCHANGED <<isMounted, subscribed, initPhase, initResult, extVars, lastEvent,
                 routerVars>>
  /\ Rerender
  /\ UNCHANGED dataVars

\* the mount effect's cleanup
Unmount ==
  /\ isMounted
  /\ ~NavPending
  /\ isMounted' = FALSE
  /\ subscribed' = FALSE
  /\ evq' = <<>>       \* unsubscribe(): undelivered events are dropped
  /\ UNCHANGED <<storeVars, initPhase, initResult, extSession, lastEvent, inflight,
                 routerVars>>
  /\ Rerender
  /\ NoReturn
  /\ UNCHANGED dataVars

\* ----------------------------------------------------------------- views
\* AuthPage.handleSubmit (the form controls are disabled while loading)
AuthPageSubmit(mode, email, password) ==
  /\ isMounted
  /\ view = "auth"
  /\ ~loading
  /\ ~NavPending
  /\ IF TrimIsEmpty(email)
     THEN localError' = "emailRequired" /\ UNCHANGED <<storeVars, inflight>>
     ELSE IF TrimIsEmpty(password)
     THEN localError' = "passwordRequired" /\ UNCHANGED <<storeVars, inflight>>
     ELSE localError' = Null /\ StartAction(mode, email, password)
  /\ UNCHANGED <<isMounted, subscribed, initPhase, initResult, extVars, lastEvent,
                 route, from>>
  /\ Rerender
  /\ NoReturn
  /\ UNCHANGED dataVars

\* Header.handleLogout (the button shows for a user and is disabled while loading)
HeaderLogout ==
  /\ isMounted
  /\ user # Null
  /\ ~loading
  /\ ~NavPending
  /\ StartAction("logout", Null, Null)
  /\ UNCHANGED <<isMounted, subscribed, initPhase, initResult, extVars, lastEvent,
                 routerVars>>
  /\ Rerender
  /\ NoReturn
  /\ UNCHANGED dataVars

\* a link is followed or the history is walked
UserNavigate(r) ==
  /\ isMounted
  /\ ~NavPending
  /\ r # route
  /\ route' = r
  /\ from' = Null
  /\ localError' = Null
  /\ UNCHANGED <<storeVars, isMounted, subscribed, initPhase, initResult, extVars,
                 lastEvent, inflight>>
  /\ Rerender
  /\ NoReturn
  /\ UNCHANGED dataVars

\* RequireAuth rendered <Navigate to="/auth" state={{ from: location }} replace />
GuardRedirect ==
  /\ isMounted
  /\ view = "navigate"
  /\ route' = "/auth"
  /\ from' = NavigateFrom(route)
  /\ localError' = Null
  /\ UNCHANGED <<storeVars, isMounted, subscribed, initPhase, initResult, extVars,
                 lastEvent, inflight>>
  /\ Rerender
  /\ NoReturn
  /\ UNCHANGED dataVars

\* AuthPage's redirection effect sees a user
AuthPageRedirect ==
  /\ isMounted
  /\ route = "/auth"
  /\ user # Null
  /\ route' = RedirectTo(from)
  /\ from' = Null
  /\ localError' = Null
  /\ UNCHANGED <<storeVars, isMounted, subscribed, initPhase, initResult, extVars,
                 lastEvent, inflight>>
  /\ Rerender
  /\ NoReturn
  /\ UNCHANGED dataVars


Next ==
  \/ getSessionServe
  \/ \E s \in MaybeSession : ExtChange(s)
  \/ \E a \in BagToSet(inflight) : ExtServe(a)
  \/ getInitialSession
  \/ DeliverEvent
  \/ \E a \in BagToSet(inflight), o \in {"invalid", "ok", "err", "throw"} :
       SettleAction(a, o) /\ NoReturn      \* AuthPage and Header only log the result
  \/ Unmount
  \/ \E m \in {"login", "signup"}, e \in FormTexts, p \in FormTexts : AuthPageSubmit(m, e, p)
  \/ HeaderLogout
  \/ \E r \in Routes : UserNavigate(r)
  \/ GuardRedirect
  \/ AuthPageRedirect

Spec == Init /\ [][Next]_vars

\* a consumer of the context calls login / signup / logout itself, with any
\* arguments and at any time while the provider is mounted
ApiCall(kind, email, password) ==
  /\ isMounted
  /\ ~NavPending
  /\ StartAction(kind, email, password)
  /\ UNCHANGED <<isMounted, subscribed, initPhase, initResult, extVars, lastEvent,
                 routerVars>>
  /\ Rerender
  /\ NoReturn
  /\ UNCHANGED dataVars

\* the provider under a page that takes no part in routing decisions
InitApi == Init /\ route = "/missing"

NextApi ==
  \/ getSessionServe
  \/ \E s \in MaybeSession : ExtChange(s)
  \/ \E a \in BagToSet(inflight) : ExtServe(a)
  \/ getInitialSession
  \/ DeliverEvent
  \/ \E a \in BagToSet(inflight), o \in {"invalid", "ok", "err", "throw"} :
       SettleAction(a, o) /\ returned' = ActionReturn(a, o)
  \/ Unmount
  \/ \E k \in {"login", "signup"}, e \in CredValues, p \in {"a@b", " ", Null} :
       ApiCall(k, e, p)
  \/ ApiCall("logout", Null, Null)

\* the provider driven through its context value by any consumer
SpecApi == InitApi /\ [][NextApi]_vars

\* ==================================================== data access: steps
\* the provider once the session has been settled, with user u (Null: signed out)
AuthAtRest(u) ==
  /\ session = (CHOOSE s \in MaybeSession : SessionUser(s) = u)
  /\ user = u
  /\ loading = FALSE
  /\ error = Null
  /\ isMounted = TRUE
  /\ subscribed = TRUE
  /\ initPhase = "done"
  /\ initResult = [kind |-> "none", sess |-> Null]
  /\ extSession = Null
  /\ evq = <<>>
  /\ lastEvent = "none"
  /\ inflight = EmptyBag
  /\ from = Null
  /\ localError = Null
  /\ returned = "none"

\* the login view shown to a visitor who is signed out
InitLogin ==
  /\ AuthAtRest(Null)
  /\ DataAtRest
  /\ route = "/auth"
  /\ view = "auth"

NextLogin ==
  \/ \E m \in {"login", "signup"}, e \in FormTexts, p \in FormTexts :
       AuthPageSubmit(m, e, p)
  \/ \E k \in {"login", "signup"}, e \in CredValues, p \in CredValues :
       inflight = EmptyBag /\ ApiCall(k, e, p)
  \/ inflight = EmptyBag /\ ApiCall("logout", Null, Null)
  \/ \E a \in BagToSet(inflight) : ExtServe(a)
  \/ DeliverEvent
  \/ \E a \in BagToSet(inflight), o \in {"invalid", "ok", "err", "throw"} :
       SettleAction(a, o) /\ returned' = ActionReturn(a, o)
  \/ GuardRedirect
  \/ AuthPageRedirect

\* signing in and up from the login view and, one call at a time, through the
\* context, with any credentials
SpecLogin == InitLogin /\ [][NextLogin]_vars

\* the application with its session settled, on any route
InitNav ==
  /\ \E u \in Users \cup {Null} : AuthAtRest(u)
  /\ DataAtRest
  /\ route \in Routes
  /\ view = AppRouter(route, user, loading)

NextNav ==
  \/ \E r \in Routes : UserNavigate(r)
  \/ \E s \in MaybeSession : ExtChange(s)
  \/ DeliverEvent
  \/ GuardRedirect
  \/ AuthPageRedirect

\* routing after the initial session check; a rendered <Navigate> and a due
\* effect are carried out by React once the render has been committed
SpecNav ==
  /\ InitNav
  /\ [][NextNav]_vars
  /\ WF_vars(GuardRedirect)
  /\ WF_vars(AuthPageRedirect)

\* the storage client carries out a request and answers it: the answer is
\* computed from the collections as they are at that moment, and is on its way
ClientAnswer ==
  \E c \in calls :
    /\ c.rejected = Null
    /\ c.resp = Unanswered
    /\ \E resp \in ClientResponses(c.req, plans, db) :
         /\ db' = LogsAfter(c.req, resp, db)
         /\ calls' = (calls \ {c}) \cup {[c EXCEPT !.resp = resp]}
    /\ UNCHANGED <<authVars, supabase, plans, page, sent, reply, ret, dashboard, progress>>

\* the ways an invocation can end: input rejected by validation (no request went
\* out), or the request ended by the storage client's answer
Completions(c) ==
  IF c.rejected # Null THEN {NoResponse}
  ELSE IF c.resp = Unanswered THEN {}
  ELSE {c.resp}

\* the adapter resumes after its await and returns
AdapterReturns(c, resp) ==
  /\ reply' = resp
  /\ ret' = Returned(c, AdapterResult(c.op, c.rejected, resp))

\* an adapter is called directly, with any arguments (by a module that has
\* imported authService.js, and with it supabaseClient.js)
ApiInvoke(op, userId, logData) ==
  /\ supabase.state = "created"
  /\ page.name = "none"
  /\ calls = {}
  /\ ret = NoReturned
  /\ calls' = {Invocation("api", op, userId, logData)}
  /\ sent' = Issued(Invocation("api", op, userId, logData))
  /\ UNCHANGED <<authVars, supabase, plans, db, page, reply, ret, dashboard, progress>>

\* the adapter called directly returns to its caller
ApiReturn ==
  \E c \in calls :
    /\ c.caller = "api"
    /\ \E resp \in Completions(c) : AdapterReturns(c, resp)
    /\ calls' = calls \ {c}
    /\ UNCHANGED <<authVars, supabase, plans, db, page, sent, dashboard, progress>>

\* collections one adapter call is checked against
InitData ==
  /\ supabase = Configured
  /\ AuthAtRest(Null)
  /\ route = "/missing"
  /\ view = "notfound"
  /\ plans \in SUBSET PlanRows
  /\ db \in SUBSET SeedRows
  /\ plans = {} \/ db = {}
  /\ page = NoPage
  /\ calls = {}
  /\ sent = <<>>
  /\ reply = NoResponse
  /\ ret = NoReturned
  /\ dashboard = DashboardInitial
  /\ progress = ProgressInitial

NextData ==
  \/ \E u \in UserIdInputs : ApiInvoke("fetchWorkoutPlan", u, NoEntry)
  \/ \E u \in UserIdInputs : ApiInvoke("fetchProgressHistory", u, NoEntry)
  \/ \E u \in UserIdInputs, e \in Entries : ApiInvoke("logWorkoutProgress", u, e)
  \/ ClientAnswer
  \/ ApiReturn

\* one call of one adapter, for every input, collection content and client behaviour
SpecData == InitData /\ [][NextData]_vars

\* ------------------------------------------------------ supabaseClient.js
\* the module is evaluated when the application's modules are loaded, with the
\* environment of the build
LoadClient(url, key) ==
  /\ supabase = NotLoaded
  /\ supabase' = supabaseClient(url, key)
  /\ UNCHANGED <<authVars, plans, db, page, calls, sent, reply, ret, dashboard, progress>>

\* nothing has been loaded yet
InitBoot ==
  /\ supabase = NotLoaded
  /\ AuthAtRest(Null)
  /\ route = "/missing"
  /\ view = "notfound"
  /\ plans = {}
  /\ db \in SUBSET SeedRows
  /\ page = NoPage
  /\ calls = {}
  /\ sent = <<>>
  /\ reply = NoResponse
  /\ ret = NoReturned
  /\ dashboard = DashboardInitial
  /\ progress = ProgressInitial

NextBoot ==
  \/ \E url \in UrlValues, key \in KeyValues : LoadClient(url, key)
  \/ NextData

\* the client module's initialisation under every configuration, followed by
\* the adapter calls it allows
SpecBoot == InitBoot /\ [][NextBoot]_vars

\* ---------------------------------------------------------- DashboardPage
loadPlanDone_ErrorAsNoPlan(d, result) ==
  [planData |-> IF result.error # Null THEN NoData ELSE result.data,
   isLoading |-> FALSE,
   error |-> d.error]

\* loadPlan after the await: setError / setPlanData, then finally setIsLoading(false)
loadPlanDone(d, result) ==
  IF result.error # Null
  THEN [planData |-> NoData, isLoading |-> FALSE, error |-> result.error]
  ELSE [d EXCEPT !.planData = result.data, !.isLoading = FALSE]

\* the fetch effect runs after mount
DashboardEffect ==
  /\ page.name = "dashboard"
  /\ page.mounted
  /\ page.effect
  /\ page' = [page EXCEPT !.effect = FALSE]
  /\ IF ~Truthy(UserId(user))
     THEN UNCHANGED <<dashboard, calls, sent>>
     ELSE /\ dashboard' = [dashboard EXCEPT !.isLoading = TRUE, !.error = Null]
          /\ calls' = calls \cup {Invocation("loadPlan", "fetchWorkoutPlan", UserId(user), NoEntry)}
          /\ sent' = Issued(Invocation("loadPlan", "fetchWorkoutPlan", UserId(user), NoEntry))
  /\ UNCHANGED <<authVars, supabase, plans, db, reply, ret, progress>>

\* loadPlan resumes after the await
DashboardLoaded ==
  \E c \in calls :
    /\ c.caller = "loadPlan"
    /\ \E resp \in Completions(c) :
         /\ AdapterReturns(c, resp)
         /\ dashboard' = loadPlanDone(dashboard, AdapterResult(c.op, c.rejected, resp))
    /\ calls' = calls \ {c}
    /\ UNCHANGED <<authVars, supabase, plans, db, page, sent, progress>>

\* ----------------------------------------------------------- ProgressPage
\* loadHistory up to the await, with a user identity
loadHistoryBegin(p) == [p EXCEPT !.historyLoading = TRUE, !.historyError = Null]

\* loadHistory after the await
loadHistoryDone(p, result) ==
  IF result.error # Null
  THEN [p EXCEPT !.historyError = result.error, !.historyData = NoData,
                 !.historyLoading = FALSE]
  ELSE [p EXCEPT !.historyData = result.data, !.historyLoading = FALSE]

\* the history effect runs after mount
ProgressEffect ==
  /\ page.name = "progress"
  /\ page.mounted
  /\ page.effect
  /\ page' = [page EXCEPT !.effect = FALSE]
  /\ IF ~Truthy(UserId(user))
     THEN /\ progress' = [progress EXCEPT !.historyLoading = FALSE]
          /\ UNCHANGED <<calls, sent>>
     ELSE /\ progress' = loadHistoryBegin(progress)
          /\ calls' = calls \cup {Invocation("loadHistory", "fetchProgressHistory", UserId(user), NoEntry)}
          /\ sent' = Issued(Invocation("loadHistory", "fetchProgressHistory", UserId(user), NoEntry))
  /\ UNCHANGED <<authVars, supabase, plans, db, reply, ret, dashboard>>

\* loadHistory resumes after the await; when handleLogSubmit awaited it, that
\* handler's finally block follows
HistoryLoaded ==
  \E c \in calls :
    /\ c.caller \in {"loadHistory", "reload"}
    /\ \E resp \in Completions(c) :
         /\ AdapterReturns(c, resp)
         /\ progress' =
              [loadHistoryDone(progress, AdapterResult(c.op, c.rejected, resp))
                 EXCEPT !.logLoading = IF c.caller = "reload" THEN FALSE ELSE @]
    /\ calls' = calls \ {c}
    /\ UNCHANGED <<authVars, supabase, plans, db, page, sent, dashboard>>

\* handleLogSubmit goes on to the insert only when no check has failed
SubmitAllowed(msg) == msg = Null

\* handleLogSubmit up to the await (the form's controls are disabled while logLoading)
LogSubmit(form) ==
  /\ page.name = "progress"
  /\ page.mounted
  /\ ~page.effect
  /\ ~progress.logLoading
  /\ Cardinality(db) < MaxRows
  /\ IF ~SubmitAllowed(LocalValidation(form, user))
     THEN /\ progress' = [progress EXCEPT !.localValidationError = LocalValidation(form, user),
                                          !.logError = Null]
          /\ UNCHANGED <<calls, sent>>
     ELSE /\ progress' = [progress EXCEPT !.localValidationError = Null, !.logError = Null,
                                          !.logLoading = TRUE]
          /\ calls' = calls \cup {Invocation("submit", "logWorkoutProgress", UserId(user),
                                             LogDataPayload(form))}
          /\ sent' = Issued(Invocation("submit", "logWorkoutProgress", UserId(user),
                                       LogDataPayload(form)))
  /\ UNCHANGED <<authVars, supabase, plans, db, page, reply, ret, dashboard>>

\* handleLogSubmit resumes after the await: an error is shown, or the form is
\* reset and loadHistory() is called and awaited (the loadHistory of the render
\* that handled the submit, with that render's user.id)
LogSubmitted ==
  \E c \in calls :
    /\ c.caller = "submit"
    /\ \E resp \in Completions(c) :
         /\ AdapterReturns(c, resp)
         /\ IF AdapterResult(c.op, c.rejected, resp).error # Null
            THEN /\ progress' = [progress EXCEPT
                                   !.logError = AdapterResult(c.op, c.rejected, resp).error,
                                   !.logLoading = FALSE]
                 /\ calls' = calls \ {c}
                 /\ UNCHANGED sent
            ELSE IF ~Truthy(c.userId)
            THEN /\ progress' = [progress EXCEPT !.historyLoading = FALSE, !.logLoading = FALSE]
                 /\ calls' = calls \ {c}
                 /\ UNCHANGED sent
            ELSE /\ progress' = loadHistoryBegin(progress)
                 /\ calls' = (calls \ {c}) \cup
                      {Invocation("reload", "fetchProgressHistory", c.userId, NoEntry)}
                 /\ sent' = Issued(Invocation("reload", "fetchProgressHistory", c.userId,
                                              NoEntry))
    /\ UNCHANGED <<authVars, supabase, plans, db, page, dashboard>>

\* the subscription callback runs with the session of another user while a
\* protected page is mounted: the guard keeps the page, whose effect is due
\* again because user?.id has changed
SessionReplaced(s) ==
  /\ page.mounted
  /\ ~page.effect
  /\ page.switches < MaxSwitches
  /\ SessionUser(s) # user
  /\ SetStore(onAuthStateChange(s, Store))
  /\ lastEvent' = s
  /\ page' = [page EXCEPT !.effect = TRUE, !.switches = @ + 1]
  /\ UNCHANGED <<isMounted, subscribed, initPhase, initResult, extVars, inflight,
                 routerVars>>
  /\ Rerender
  /\ NoReturn
  /\ UNCHANGED <<supabase, plans, db, calls, sent, reply, ret, dashboard, progress>>

\* a link to a route without a page is followed: the protected page unmounts
PageLeave ==
  /\ page.mounted
  /\ ~page.effect
  /\ route' = "/missing"
  /\ from' = Null
  /\ localError' = Null
  /\ page' = [page EXCEPT !.mounted = FALSE]
  /\ UNCHANGED <<storeVars, isMounted, subscribed, initPhase, initResult, extVars,
                 lastEvent, inflight>>
  /\ Rerender
  /\ NoReturn
  /\ UNCHANGED <<supabase, plans, db, calls, sent, reply, ret, dashboard, progress>>

\* a protected page just mounted: the guard renders it once the session is settled
\* and a user is present
InitPages ==
  /\ supabase = Configured
  /\ \E u \in Users : AuthAtRest(u)
  /\ page \in {Page(n) : n \in {"dashboard", "progress"}}
  /\ route = IF page.name = "dashboard" THEN "/" ELSE "/progress"
  /\ view = page.name
  /\ IF page.name = "dashboard"
     THEN plans \in SUBSET PlanRows /\ db = {}
     ELSE plans = {} /\ db \in SUBSET SeedRows
  /\ calls = {}
  /\ sent = <<>>
  /\ reply = NoResponse
  /\ ret = NoReturned
  /\ dashboard = DashboardInitial
  /\ progress = ProgressInitial

NextPages ==
  \/ ClientAnswer
  \/ DashboardEffect
  \/ DashboardLoaded
  \/ ProgressEffect
  \/ HistoryLoaded
  \/ \E f \in Forms : LogSubmit(f)
  \/ LogSubmitted

\* the two protected pages with their data requests, while the route and the
\* signed-in identity stay as they are
SpecPages == InitPages /\ [][NextPages]_vars

\* a protected page just mounted over collections that hold rows already
InitViews ==
  /\ InitPages
  /\ page.name = "progress" => Cardinality(db) = MaxRows - 1

NextViews ==
  \/ NextPages
  \/ \E s \in SignInSessions : SessionReplaced(s)
  \/ PageLeave

\* the two protected pages from mount to unmount, the signed-in identity
\* changing under them
SpecViews == InitViews /\ [][NextViews]_vars

\* ------------------------------------------------------ step recognisers
\* the subscription handler ran for the head of the event queue
EventDelivered == isMounted /\ isMounted' /\ evq # <<>> /\ evq' = Tail(evq)

\* getInitialSession resumed after its await
InitialReadCompleted == initPhase = "served" /\ initPhase' = "done"

\* an auth action was started or settled
AuthActionStep == BagCardinality(inflight') # BagCardinality(inflight)

ProtectedViews == {"dashboard", "progress"}

\* ------------------------------------------------------------------ claims

\* C1: a protected view (dashboard or progress) is rendered only when the store's
\* loading flag is false and its user is present; with loading false and no
\* user the protected content is never rendered.
C1_ProtectedViewOnlyForUser ==
  /\ view \in ProtectedViews => (~loading /\ user # Null)
  /\ (~loading /\ user = Null) => view \notin ProtectedViews

C1_Witness == view = "progress" /\ user = "uB" /\ ~loading /\ initPhase = "done"

\* C2 (as claimed): once the latest delivered event is an end-session event, the
\* user is absent until a later event carries a session, and a protected route
\* redirects to /auth (the guard renders its <Navigate>) when not loading.
C2_EndSessionKeepsUserAbsent ==
  (isMounted /\ lastEvent = Null) =>
    /\ user = Null
    /\ (route \in ProtectedRoutes /\ ~loading) => view = "navigate"

\* C3 (as claimed): every change of the mirrored session or user is made by the
\* delivery of an event to the subscription handler.
C3_OnlyEventsWrite ==
  [][(session' # session \/ user' # user) => EventDelivered]_vars

\* C3 (amended): every change of the mirrored session or user is made by the
\* delivery of an event or by the completion of the initial session read; no
\* auth action and no other operation changes them.
C3_OnlyEventsAndInitialReadWrite ==
  [][(session' # session \/ user' # user) => (EventDelivered \/ InitialReadCompleted)]_vars

C3_Witness == session = "s1" /\ user = "uA" /\ lastEvent = "none" /\ initPhase = "done"

\* C4 (as claimed): once an event has been delivered to the mounted store, the
\* mirrored session and user are those of the most recently delivered event.
C4_MirrorsLatestEvent ==
  (isMounted /\ lastEvent # "none") =>
    (session = lastEvent /\ user = SessionUser(lastEvent))

\* C5: the handler replaces the mirror in full: right after it runs for an event
\* carrying s, session = s, user = the user of s (absent when s is absent) and
\* error is absent, whatever they were before.
C5_EventReplacesMirror ==
  [][EventDelivered =>
       /\ session' = Head(evq)
       /\ user' = SessionUser(Head(evq))
       /\ error' = Null]_vars

C5_Witness ==
  /\ lastEvent = "s2" /\ session = "s2" /\ user = "uB" /\ error = Null
  /\ initPhase = "done" /\ inflight # EmptyBag

C7_ActionsLeaveSessionAlone ==
  [][AuthActionStep => UNCHANGED <<session, user>>]_vars

C7_Witness ==
  /\ error = "validationError" /\ ~loading /\ session = "s1" /\ user = "uA"
  /\ inflight = EmptyBag

\* C8: the guard's redirect from a protected route r goes to /auth and carries r
\* as 'from'; with a user present on /auth the next thing the app does is to
\* navigate to the carried route, or to '/' when none (or /auth) was carried.
C8_RedirectCarriesAndReturns ==
  [][/\ (view = "navigate" /\ route' # route) => (route' = "/auth" /\ from' = route)
     /\ (isMounted /\ route = "/auth" /\ user # Null) =>
          /\ (from # Null /\ from # "/auth") => route' = from
          /\ (from = Null \/ from = "/auth") => route' = "/"]_vars

C8_Witness == isMounted /\ route = "/auth" /\ from = "/progress" /\ user # Null

\* C9: while loading is true the guard shows the placeholder and decides nothing:
\* RequireAuth renders neither the redirect nor the protected view, and the
\* useRequireAuth effect does not navigate, whatever the user is.
C9_NoDecisionWhileLoading ==
  loading =>
    /\ view \notin ProtectedViews \cup {"navigate"}
    /\ (isMounted /\ route \in ProtectedRoutes) => view = "placeholder"
    /\ useRequireAuth(user, loading) = "none"

C9_Witness == loading /\ user # Null /\ route = "/" /\ view = "placeholder"

\* C10 (as claimed): after teardown nothing writes session, user, loading or error.
C10_NoWriteAfterTeardown ==
  [][~isMounted => UNCHANGED storeVars]_vars

\* C11: every login / signup / logout that settles returns a result (it does not
\* throw to its caller); when the outcome is a failure (rejected by validation,
\* an error reported by the auth subsystem, or a thrown exception) the result's
\* error is present and the store's error equals it right after the action.
C11_FailureReturnedAndExposed ==
  [][\A a \in BagToSet(inflight) :
       inflight' = inflight (-) SetToBag({a}) =>
         /\ returned' \notin {"none", "thrown"}
         /\ a.res # "ok" => (returned' # Null /\ error' = returned')]_vars

C11_Witness ==
  /\ returned \in {"validationError", "authError", "runtimeError"}
  /\ error = returned
  /\ ~loading

\* C12 (as claimed): the record logWorkoutProgress(u, e) hands to the insert has
\* user_id = u for every entry e that passes validation, whatever fields e carries.
C12_InsertCarriesCallerIdentity ==
  \A c \in calls :
    (c.op = "logWorkoutProgress" /\ c.rejected = Null) =>
      \A i \in 1..Len(c.req.records) : c.req.records[i].user_id = c.userId

\* C13: an adapter handed a user identity that is absent, not a string, empty or
\* whitespace-only returns {data: null, error: validation error} and hands no
\* request to the storage client; this holds for all three adapters.
C13_InvalidIdentityRejected ==
  LET Invalid(v) == v.t # "string" \/ v.s \in {"", " "}
  IN /\ \A c \in calls : Invalid(c.userId) => (c.rejected # Null /\ sent = <<>>)
     /\ (ret.state = "returned" /\ Invalid(ret.userId)) =>
          /\ ret.data = NoData
          /\ ret.error = "userIdError"
          /\ sent = <<>>
          /\ reply = NoResponse

C13_Witness ==
  /\ ret.state = "returned"
  /\ ret.op = "fetchProgressHistory"
  /\ ret.userId = Str(" ")
  /\ ret.error = "userIdError"

\* C14: logWorkoutProgress with a valid user identity returns a validation error
\* and issues no insert when the entry is absent, a name is empty or blank, the
\* set count is not a number or is negative, or the reps text or the date is
\* empty or blank.
C14_InvalidEntryRejected ==
  LET Blank(v) == v.t # "string" \/ v.s \in {"", " "}
      NoCount(v) == v.t # "number" \/ v.s = "NaN" \/ v.n < 0
      Invalid(e) == \/ e.value.t # "object" \/ e.value = NullV
                    \/ Blank(e.workout_name) \/ Blank(e.exercise_name)
                    \/ NoCount(e.sets_completed)
                    \/ Blank(e.reps_achieved) \/ Blank(e.workout_date)
      ValidId(v) == v.t = "string" /\ v.s \notin {"", " "}
  IN /\ \A c \in calls :
          (c.op = "logWorkoutProgress" /\ ValidId(c.userId) /\ Invalid(c.logData)) =>
            (c.rejected # Null /\ sent = <<>>)
     /\ (ret.state = "returned" /\ ret.op = "logWorkoutProgress" /\ ValidId(ret.userId)
           /\ Invalid(ret.logData)) =>
          /\ ret.data = NoData
          /\ ret.error = "logDataError"
          /\ sent = <<>>
          /\ reply = NoResponse

C14_Witness ==
  /\ ret.state = "returned"
  /\ ret.op = "logWorkoutProgress"
  /\ ret.userId = Str("uA")
  /\ ret.logData.sets_completed = Num(-5)
  /\ ret.error = "logDataError"

\* C15 (as claimed): an entry whose weight_used is a negative number, all other
\* fields valid, is rejected by logWorkoutProgress with a validation error and no
\* insert is issued.
C15_NegativeWeightRejected ==
  \A c \in calls :
    (/\ c.op = "logWorkoutProgress"
     /\ c.userId \in {Str("uA"), Str("uB")}
     /\ c.logData.weight_used.t = "number"
     /\ c.logData.weight_used.n < 0
     /\ [c.logData EXCEPT !.weight_used = Num(60)] = BaseEntry) =>
      (c.rejected # Null /\ sent = <<>>)

\* C16: however the storage client ends the request (data, reported error,
\* thrown exception), the adapter returns a {data, error} record and lets no
\* exception through; when the client throws, data is null and error is present.
C16_AdaptersNeverThrow ==
  /\ ret.state \in {"none", "returned"}
  /\ (ret.state = "returned" /\ reply.kind = "throw") =>
       (ret.data = NoData /\ ret.error # Null)
  /\ (ret.state = "returned" /\ reply.kind = "error") => ret.error # Null

C16_Witness ==
  /\ ret.state = "returned"
  /\ ret.op = "logWorkoutProgress"
  /\ reply.kind = "throw"
  /\ ret.error = "runtimeError"

\* C17: fetchWorkoutPlan for a user without a plan returns {data: null, error:
\* null} and the dashboard shows its 'no plan' state; a failure (reported error or
\* thrown exception) returns data null with an error and the dashboard shows its
\* error state.
C17_NoPlanIsNotAnError ==
  (ret.state = "returned" /\ ret.op = "fetchWorkoutPlan") =>
    /\ (reply.kind = "ok" /\ \A r \in plans : r.user_id # ret.userId) =>
         /\ ret.data = NoData
         /\ ret.error = Null
         /\ renderDashboard(dashboard) = "noPlan"
    /\ reply.kind \in {"error", "throw"} =>
         /\ ret.data = NoData
         /\ ret.error # Null
         /\ renderDashboard(dashboard) = "error"

C17_Witness ==
  /\ ret.op = "fetchWorkoutPlan"
  /\ reply = Response("ok", NoData)
  /\ plans # {}
  /\ renderDashboard(dashboard) = "noPlan"

\* C18: fetchProgressHistory with a valid identity returns {data: empty
\* collection, error: null} when the query succeeds with no matching row, whether
\* the client reports an empty collection or no value; on a successful query data
\* is never null.
C18_EmptyHistoryIsEmptyCollection ==
  (ret.state = "returned" /\ ret.op = "fetchProgressHistory" /\ reply.kind = "ok") =>
    /\ ret.error = Null
    /\ ret.data.kind = "rows"
    /\ (\A r \in db : r.user_id # ret.userId) => ret.data = Rows(<<>>)

C18_Witness ==
  /\ ret.op = "fetchProgressHistory"
  /\ reply = Response("ok", NoData)
  /\ db # {}
  /\ ret.data = Rows(<<>>)
  /\ ret.error = Null

\* C19: on success fetchProgressHistory(u) returns exactly the rows the
\* collection holds for u when the query is carried out, by workout_date
\* descending and, on the same date, by created_at descending; the progress view
\* holds and lists them in that order.
C19_HistoryExactAndSorted ==
  [][/\ \A c \in calls' \ calls :
          (c.op = "fetchProgressHistory" /\ c.resp.kind = "ok") =>
            LET q == OrEmpty(c.resp.data).rows
                n == Len(q)
            IN /\ {q[i] : i \in 1..n} = {r \in db : r.user_id = c.userId}
               /\ n = Cardinality({r \in db : r.user_id = c.userId})
               /\ \A i, j \in 1..n : i < j =>
                    \/ DateRank(q[i].workout_date.s) > DateRank(q[j].workout_date.s)
                    \/ /\ DateRank(q[i].workout_date.s) = DateRank(q[j].workout_date.s)
                       /\ q[i].created_at >= q[j].created_at
     /\ \A c \in calls \ calls' :
          (c.op = "fetchProgressHistory" /\ c.resp.kind = "ok") =>
            /\ ret'.error = Null
            /\ ret'.data = OrEmpty(c.resp.data)
            /\ progress'.historyData = ret'.data
            /\ renderHistory(progress').shows = "list" =>
                 renderHistory(progress').items = ret'.data.rows]_vars

C19_Witness ==
  /\ ret.op = "fetchProgressHistory"
  /\ ret.userId = Str("uA")
  /\ Len(ret.data.rows) = 3
  /\ \E r \in db : r.user_id = Str("uB")
  /\ renderHistory(progress).shows = "list"

\* C20: a valid submission (u, e) makes logWorkoutProgress issue one insert of
\* one record that carries each of e's six fields with its submitted value; on
\* success the adapter returns the rows the client reported, as reported.
C20_EntryInsertedUnchanged ==
  /\ \A c \in calls :
       (c.op = "logWorkoutProgress" /\ c.rejected = Null) =>
         /\ Len(sent) = 1
         /\ sent[1].verb = "insert"
         /\ Len(sent[1].records) = 1
         /\ \A f \in LogFields : sent[1].records[1][f] = c.logData[f]
  /\ (ret.state = "returned" /\ ret.op = "logWorkoutProgress" /\ reply.kind = "ok") =>
       /\ ret.data = reply.data
       /\ ret.error = Null
       /\ Len(sent) = 1
       /\ \A f \in LogFields : sent[1].records[1][f] = ret.logData[f]

C20_Witness ==
  /\ ret.op = "logWorkoutProgress"
  /\ reply.kind = "ok"
  /\ ret.logData.workout_name = Str(" Legs ")
  /\ ret.data = reply.data
  /\ Len(ret.data.rows) = 1

\* rows of progress_logs that were inserted after the page was mounted
LoggedRows == db \ SeedRows

\* C21 (as claimed): after the progress view's submission has been inserted and
\* every history fetch the view issued (the initial one, the one after the
\* submission) has completed without error, the list shown contains the new
\* entry, and shows it first when no entry of the user has a later workout date.
C21_HistoryShowsNewEntry ==
  (/\ page.name = "progress"
   /\ page.mounted
   /\ Cardinality(LoggedRows) = 1
   /\ calls = {}
   /\ progress.historyError = Null) =>
    \A e \in LoggedRows :
      /\ renderHistory(progress).shows = "list"
      /\ \E i \in 1..Len(renderHistory(progress).items) :
           renderHistory(progress).items[i] = e
      /\ (\A r \in db : r.user_id = e.user_id =>
             DateRank(r.workout_date.s) <= DateRank(e.workout_date.s)) =>
           renderHistory(progress).items[1] = e

\* C22: when the endpoint URL or the public key is missing, not a string, empty
\* or whitespace-only, initialisation ends in a fatal error, no client exists and
\* no adapter call is ever issued; a client exists only when both values are
\* non-empty strings.
C22_ClientOnlyWithConfiguration ==
  LET usable(v) == v.t = "string" /\ v.s \notin {"", " "}
  IN /\ supabase.state \in {"unloaded", "fatal", "created"}
     /\ supabase.state = "created" => usable(supabase.url) /\ usable(supabase.key)
     /\ (supabase.state # "unloaded" /\ ~(usable(supabase.url) /\ usable(supabase.key))) =>
          /\ supabase.state = "fatal"
          /\ supabase.error # Null
     /\ supabase.state # "created" =>
          /\ calls = {}
          /\ sent = <<>>
          /\ ret = NoReturned

C22_Witness ==
  /\ supabase.state = "fatal"
  /\ supabase.url = Str("https://p.supabase.co")
  /\ supabase.key = Str(" ")

\* C23 (as claimed): once a protected page has been unmounted, the completion
\* of a request it issued (plan fetch, history fetch, log insert) applies nothing
\* to the page's state: data, error and loading flags stay as they were.
C23_NothingAppliedAfterUnmount ==
  [][(page.name # "none" /\ ~page.mounted) =>
       (dashboard' = dashboard /\ progress' = progress)]_vars

\* the invocations in flight that were issued by one of the callers
Pending(callers) == {c \in calls : c.caller \in callers}

\* C24 (as claimed): on a mounted page whose effect has run, each loading flag
\* is true while a request behind it is pending and false once none is:
\* isLoading for the plan fetch, historyLoading for every history fetch (the
\* initial one and the one after a submission), logLoading for a submission
\* (insert and the refetch it awaits).
C24_LoadingFlagsTrackPending ==
  (page.mounted /\ ~page.effect) =>
    /\ page.name = "dashboard" =>
         (dashboard.isLoading <=> Pending({"loadPlan"}) # {})
    /\ page.name = "progress" =>
         /\ progress.historyLoading <=> Pending({"loadHistory", "reload"}) # {}
         /\ progress.logLoading <=> Pending({"submit", "reload"}) # {}

\* C25 (as claimed): once the initial session check is over, while a login,
\* signup or logout that was started has not returned, the store's loading flag
\* is true, also when an auth event is delivered meanwhile and when two actions
\* overlap.
C25_LoadingWhileActionInFlight ==
  [][(initPhase = "done" /\ isMounted' /\ inflight' # EmptyBag) => loading']_vars

\* C26 (as claimed): fetchProgressHistory returns data as a collection when its
\* result has no error, and data null whenever the result carries an error:
\* after a validation failure, a reported error and a thrown exception.
C26_HistoryDataNullOnError ==
  (ret.state = "returned" /\ ret.op = "fetchProgressHistory") =>
    /\ ret.error = Null => ret.data.kind = "rows"
    /\ ret.error # Null => ret.data = NoData

\* C27: with an email or a password that is absent, not a string, empty or
\* whitespace-only, login / signup end in the service's validation error and
\* hand nothing to the external auth subsystem; the login view calls neither
\* when its email or password field is empty or whitespace-only.
C27_InvalidCredentialsNeverSent ==
  [][LET unusable(v) == v \in {Null, NotAString, "", " "}
         rejected(k) == [kind |-> k, res |-> "invalid"]
     IN /\ inflight' # inflight =>
             \A k \in {"login", "signup"}, e \in CredValues, p \in CredValues :
               ((unusable(e) \/ unusable(p)) /\ ApiCall(k, e, p)) =>
                 /\ inflight' = inflight (+) SetToBag({rejected(k)})
                 /\ UNCHANGED extVars
        /\ \A k \in {"login", "signup"} :
             CopiesIn(rejected(k), inflight') < CopiesIn(rejected(k), inflight) =>
               /\ inflight' = inflight (-) SetToBag({rejected(k)})
               /\ returned' = "validationError"
               /\ UNCHANGED extVars
        /\ (view = "auth" /\ route' = route) =>
             \A m \in {"login", "signup"}, e \in FormTexts, p \in FormTexts :
               ((e \in {"", " "} \/ p \in {"", " "}) /\ AuthPageSubmit(m, e, p)) =>
                 /\ inflight' = inflight
                 /\ loading' = loading
                 /\ localError' # Null]_vars

C27_Witness ==
  /\ returned = "validationError"
  /\ localError = "passwordRequired"
  /\ inflight = EmptyBag
  /\ view = "auth"

\* C28 (as claimed): after the initial session check, a protected view that is
\* rendered stays rendered while the user stays present and the route is kept;
\* starting an auth action does not put the loading placeholder in its place.
C28_ProtectedViewStaysRendered ==
  [][(/\ initPhase = "done"
      /\ view \in ProtectedViews
      /\ user # Null
      /\ user' # Null
      /\ route' = route
      /\ isMounted') => view' = view]_vars

\* C29 (as claimed): when the dashboard's plan fetches have all completed and
\* it shows a plan, the plan is the one of the store's current user, also when
\* the identity changed while a fetch was in flight, whichever answer came last.
C29_PlanOfCurrentUser ==
  (/\ page.name = "dashboard"
   /\ page.mounted
   /\ ~page.effect
   /\ Pending({"loadPlan"}) = {}
   /\ renderDashboard(dashboard) = "plan") =>
    \A i \in 1..Len(dashboard.planData.rows) :
      dashboard.planData.rows[i].user_id = UserId(user)

\* C30: the redirects of the guard and of the login view settle: a pending
\* redirect is followed by a state where none is pending; at rest with the store
\* resolved an absent user is not on a protected route and a present user is not
\* on /auth; the guard's redirect and the login view's are never due together.
C30_RedirectsSettle ==
  /\ [](~(view = "navigate" /\ route = "/auth" /\ user # Null))
  /\ []((isMounted /\ ~loading /\ ~NavPending) =>
          /\ user = Null => route \notin ProtectedRoutes
          /\ user # Null => route # "/auth")
  /\ NavPending ~> ~NavPending

C30_Witness ==
  /\ route = "/auth"
  /\ from = "/progress"
  /\ user = Null
  /\ view = "auth"
  /\ ~NavPending

====
